---- MODULE Spec2Model ----
(***************************************************************************)
(* msdf-atlasgen: the rectangle geometry of box.h, the free-rectangle      *)
(* packer that build_atlas() calls, and the auto-height search of run().   *)
(*                                                                         *)
(* Five specifications share the module:                                   *)
(*   Spec, SpecFair  run(): the auto-height search and the output steps    *)
(*   SpecSplit       make_splits applied to a free rectangle and an item   *)
(*   SpecPrune       the containment prune applied to a Free-Space Set     *)
(*   SpecPack        one packing run, then the run on the scaled items     *)
(***************************************************************************)
EXTENDS Integers, Sequences, FiniteSets

VARIABLES
    \* ---- run() (main.cpp) ----
    pc,                 \* position in run()
    tex_height,         \* cfg.tex_dims.height
    max_char_height,    \* cfg.max_char_height
    auto_height,        \* cfg.auto_height
    feasible,           \* heights at which build_charset + build_atlas succeed
    range,              \* std::pair range: [first, second]
    highest,            \* size_t highest
    tried,              \* heights passed to build_atlas by the search, in order
    succeeded,          \* heights the search packed successfully
    failed,             \* heights the search failed to pack
    final_result,       \* what the final build_atlas returned: "none", "ok", "fail"
    error_reported,     \* "error: packing atlas failed." was printed
    wrote_description,  \* write_description ran
    wrote_image,        \* write_image ran
    \* ---- make_splits (box.h) ----
    a,                  \* the free rectangle
    b,                  \* the item placed in it
    spacing,            \* the spacing argument
    result,             \* the result vector
    called,             \* make_splits has run
    \* ---- prune ----
    free_boxes,         \* the Free-Space Set handed to the prune step
    pruned_once,        \* after one prune
    pruned_twice,       \* after a second prune
    stage,              \* number of prunes done on free_boxes
    \* ---- packing run ----
    canvas,             \* [width, height] of the canvas
    pack_spacing,       \* cfg.spacing
    rule,               \* the placement heuristic
    scale,              \* [num, den]: the common factor of the scaled run
    runA,               \* the packing run on the items
    runB                \* the packing run on the scaled items

searchVars == << pc, tex_height, max_char_height, auto_height, feasible, range,
                 highest, tried, succeeded, failed, final_result,
                 error_reported, wrote_description, wrote_image >>
splitVars == << a, b, spacing, result, called >>
pruneVars == << free_boxes, pruned_once, pruned_twice, stage >>
packVars == << canvas, pack_spacing, rule, scale, runA, runB >>
vars == << searchVars, splitVars, pruneVars, packVars >>

----------------------------------------------------------------------------
(* Bounds of the model *)

MaxOrigin == 1          \* free rectangle origins are 0..MaxOrigin
MaxExtent == 5          \* free rectangle widths and heights are 0..MaxExtent
MaxSpacing == 2         \* spacing is 0..MaxSpacing
PruneGrid == 2          \* the prune step's rectangles lie in 0..PruneGrid squared
MaxFree == 4            \* the pruned Free-Space Set has at most MaxFree members
MaxCanvas == 4          \* canvas sides are 1..MaxCanvas
MaxItems == 3           \* a packing run has 1..MaxItems items
MaxPackSpacing == 1     \* a packing run's spacing is 0..MaxPackSpacing
MaxScaleNum == 3        \* the scaled run's factors are n/(n+1), n in 1..MaxScaleNum
MaxTexHeight == 7       \* canvas heights with every feasibility predicate
MaxMonoHeight == 16     \* canvas heights with the monotone predicates
MaxStart == 20          \* starting cfg.max_char_height is 0..MaxStart

----------------------------------------------------------------------------
(* size_t arithmetic, scaled down to a 16-bit word *)

Word == 2^16

AddW(m, n) == (m + n) % Word
SubW(m, n) == (m - n + Word) % Word
MulW(m, n) == (m * n) % Word

Min(m, n) == IF n < m THEN n ELSE m

----------------------------------------------------------------------------
(* box.h *)

Box(bx, by, bw, bh) == [x |-> bx, y |-> by, width |-> bw, height |-> bh]

top(r) == AddW(r.y, r.height)
right(r) == AddW(r.x, r.width)

overlap(p, q, sp) ==
    ~(  AddW(right(p), sp) <= q.x
     \/ AddW(right(q), sp) <= p.x
     \/ AddW(top(p), sp) <= q.y
     \/ AddW(top(q), sp) <= p.y )

\* Mutant: the right remainder starts at b.right() with the spacing left out.
make_splits_no_margin(p, q, sp) ==
    (IF AddW(p.x, sp) < q.x
       THEN << Box(p.x, p.y, SubW(SubW(q.x, p.x), sp), p.height) >> ELSE << >>)
    \o (IF right(p) > AddW(right(q), sp)
       THEN << Box(right(q), p.y, SubW(right(p), right(q)), p.height) >>
       ELSE << >>)
    \o (IF top(p) > AddW(top(q), sp)
       THEN << Box(p.x, AddW(top(q), sp), p.width,
                   SubW(SubW(top(p), top(q)), sp)) >> ELSE << >>)
    \o (IF AddW(p.y, sp) < q.y
       THEN << Box(p.x, p.y, p.width, SubW(SubW(q.y, p.y), sp)) >> ELSE << >>)

\* Mutant: the top remainder starts at b.y instead of b.top().
make_splits_top_from_y(p, q, sp) ==
    (IF AddW(p.x, sp) < q.x
       THEN << Box(p.x, p.y, SubW(SubW(q.x, p.x), sp), p.height) >> ELSE << >>)
    \o (IF right(p) > AddW(right(q), sp)
       THEN << Box(AddW(right(q), sp), p.y,
                   SubW(SubW(right(p), right(q)), sp), p.height) >> ELSE << >>)
    \o (IF top(p) > AddW(top(q), sp)
       THEN << Box(p.x, AddW(q.y, sp), p.width,
                   SubW(SubW(top(p), q.y), sp)) >> ELSE << >>)
    \o (IF AddW(p.y, sp) < q.y
       THEN << Box(p.x, p.y, p.width, SubW(SubW(q.y, p.y), sp)) >> ELSE << >>)

\* result.clear(), then up to four push_backs: left, right, top, bottom.
make_splits(p, q, sp) ==
    (IF AddW(p.x, sp) < q.x
       THEN << Box(p.x, p.y, SubW(SubW(q.x, p.x), sp), p.height) >> ELSE << >>)
    \o (IF right(p) > AddW(right(q), sp)
       THEN << Box(AddW(right(q), sp), p.y,
                   SubW(SubW(right(p), right(q)), sp), p.height) >> ELSE << >>)
    \o (IF top(p) > AddW(top(q), sp)
       THEN << Box(p.x, AddW(top(q), sp), p.width,
                   SubW(SubW(top(p), top(q)), sp)) >> ELSE << >>)
    \o (IF AddW(p.y, sp) < q.y
       THEN << Box(p.x, p.y, p.width, SubW(SubW(q.y, p.y), sp)) >> ELSE << >>)

\* Mutant: a free rectangle is taken only when the item fills it exactly.
can_fit_exact(p, q) == p.width = q.width /\ p.height = q.height

can_fit(p, q) == p.width >= q.width /\ p.height >= q.height

contains(p, q) ==
    q.x >= p.x /\ q.y >= p.y /\ right(q) <= right(p) /\ top(q) <= top(p)

\* operator==
BoxEq(p, q) ==
    p.x = q.x /\ p.y = q.y /\ p.width = q.width /\ p.height = q.height

area(r) == r.width * r.height

\* A total order on rectangles (lower first, then further left, then
\* narrower, then shorter): the order in which ties are resolved.
BoxBefore(p, q) ==
    \/ p.y < q.y
    \/ p.y = q.y /\ p.x < q.x
    \/ p.y = q.y /\ p.x = q.x /\ p.width < q.width
    \/ p.y = q.y /\ p.x = q.x /\ p.width = q.width /\ p.height < q.height

\* Mutant: the pass stops after the first member it erases.
PruneFirstOnly(fs) ==
    LET dead == { r \in fs : \E q \in fs : ~BoxEq(q, r) /\ contains(q, r) }
    IN  IF dead = {} THEN fs
        ELSE fs \ { CHOOSE r \in dead : \A q \in dead \ {r} : BoxBefore(r, q) }

\* The containment prune of the Free-Space Set: every member that another
\* member (one that is not operator== to it) contains is removed.
Prune(fs) ==
    { r \in fs : ~\E q \in fs : ~BoxEq(q, r) /\ contains(q, r) }

----------------------------------------------------------------------------
(* The packer behind build_atlas(): bin_pack_max_rect *)

Range(s) == { s[i] : i \in DOMAIN s }

\* The placement heuristics: each picks the fitting free rectangle of least
\* score, ties resolved by BoxBefore.
Rules == { "bottom_left", "best_area", "best_short_side" }

Score(f, item, rl) ==
    CASE rl = "bottom_left" -> 0
      [] rl = "best_area" -> area(f) - area(item)
      [] rl = "best_short_side" ->
            Min(f.width - item.width, f.height - item.height)

Candidates(free, item) == { f \in free : can_fit(f, item) }

ChooseFree(free, item, rl) ==
    LET cand == Candidates(free, item)
    IN  CHOOSE f \in cand :
            \A g \in cand \ {f} :
                \/ Score(f, item, rl) < Score(g, item, rl)
                \/ Score(f, item, rl) = Score(g, item, rl) /\ BoxBefore(f, g)

\* A run before its first item: the Free-Space Set holds the canvas alone.
StartRun(items, cv) ==
    [items |-> items, next |-> 1,
     free |-> { Box(0, 0, cv.width, cv.height) }, status |-> "running"]

\* One item of the run: pick a fitting free rectangle, write its origin into
\* the item, remove that free rectangle, insert its splits, prune.
PlaceNext(r, sp, rl) ==
    LET item == r.items[r.next]
    IN  IF Candidates(r.free, item) = {}
        THEN [r EXCEPT !.status = "failed"]
        ELSE LET f == ChooseFree(r.free, item, rl)
                 placed == [item EXCEPT !.x = f.x, !.y = f.y]
             IN  [items |-> [r.items EXCEPT ![r.next] = placed],
                  next |-> r.next + 1,
                  free |-> Prune((r.free \ {f})
                                 \cup Range(make_splits(f, placed, sp))),
                  status |-> IF r.next = Len(r.items) THEN "ok" ELSE "running"]

\* build_charset: a dimension scaled by the common factor and rounded up
\* (no smoothing margin).
ScaleDown(d, sc) == (d * sc.num + sc.den - 1) \div sc.den

ScaleItems(items, sc) ==
    [i \in DOMAIN items |->
        Box(0, 0, ScaleDown(items[i].width, sc), ScaleDown(items[i].height, sc))]

----------------------------------------------------------------------------
(* Measures used to state the area properties *)

RECURSIVE SumArea(_)
SumArea(s) == IF s = << >> THEN 0 ELSE area(Head(s)) + SumArea(Tail(s))

\* The unit cell whose lower-left corner is (cx, cy) lies in r.
CellIn(cx, cy, r) ==
    r.x <= cx /\ cx < r.x + r.width /\ r.y <= cy /\ cy < r.y + r.height

\* The number of unit cells that some member of s covers.
Cells == (0 .. MaxOrigin + MaxExtent) \X (0 .. MaxOrigin + MaxExtent)
UnionArea(s) ==
    Cardinality({ c \in Cells : \E i \in 1..Len(s) : CellIn(c[1], c[2], s[i]) })

----------------------------------------------------------------------------
(* Idle values: what a specification leaves the other parts at *)

NoBox == Box(0, 0, 0, 0)
NoRun == [items |-> << >>, next |-> 1, free |-> {}, status |-> "idle"]

SearchIdle ==
    /\ pc = "idle" /\ tex_height = 1 /\ max_char_height = 0
    /\ auto_height = FALSE /\ feasible = {} /\ range = [first |-> 0, second |-> 0]
    /\ highest = 0 /\ tried = << >> /\ succeeded = {} /\ failed = {}
    /\ final_result = "none" /\ error_reported = FALSE
    /\ wrote_description = FALSE /\ wrote_image = FALSE
SplitIdle ==
    a = NoBox /\ b = NoBox /\ spacing = 0 /\ result = << >> /\ called = FALSE
PruneIdle ==
    free_boxes = {} /\ pruned_once = {} /\ pruned_twice = {} /\ stage = 0
PackIdle ==
    /\ canvas = [width |-> 1, height |-> 1] /\ pack_spacing = 0
    /\ rule = "first_fit" /\ scale = [num |-> 1, den |-> 1]
    /\ runA = NoRun /\ runB = NoRun

----------------------------------------------------------------------------
(* Spec: run() of main.cpp *)

\* build_charset at height h, then build_atlas: the packer is deterministic,
\* so the outcome is a function of the height.
BuildAtlas(h) == h \in feasible

\* Mutant: the next candidate is capped at the ceiling, not one below it.
SuccessBranchCapAtCeiling(r, hi) ==
    [first |-> r.second,
     second |-> Min(MulW(r.second, 2), hi),
     highest |-> hi]

\* if( build_atlas( charinfos, cfg ) ) { ... }
SuccessBranch(r, hi) ==
    [first |-> r.second,
     second |-> Min(MulW(r.second, 2), SubW(hi, 1)),
     highest |-> hi]

\* Mutant: the ceiling is lowered after range.second has been bisected.
FailureBranchCeilingAfterBisect(r, hi) ==
    [first |-> r.first,
     second |-> AddW(r.first, SubW(r.second, r.first) \div 2),
     highest |-> Min(hi, AddW(r.first, SubW(r.second, r.first) \div 2))]

\* Mutant: range.first is not added back to the halved distance.
FailureBranchHalfDistance(r, hi) ==
    [first |-> r.first,
     second |-> SubW(r.second, r.first) \div 2,
     highest |-> Min(hi, r.second)]

\* else { ... }
FailureBranch(r, hi) ==
    [first |-> r.first,
     second |-> AddW(r.first, SubW(r.second, r.first) \div 2),
     highest |-> Min(hi, r.second)]

\* Mutant: the return after the error message is missing.
FinalBuildNextNoReturn(ok) == "write_description"

\* Where run() continues after the final build_atlas.
FinalBuildNext(ok) == IF ok THEN "write_description" ELSE "returned"

\* The feasibility predicates of a canvas of height h: every set of heights
\* up to h for the small canvases, the downward closed ones for the rest.
Predicates(h) ==
    IF h <= MaxTexHeight THEN SUBSET (0..h)
    ELSE { 0..k : k \in 0..h } \cup { {} }

InitRun ==
    /\ tex_height \in 1..MaxMonoHeight
    /\ feasible \in Predicates(tex_height)
    /\ max_char_height \in 0..MaxStart
    /\ auto_height \in BOOLEAN
    /\ pc = "start"
    /\ range = [first |-> 0, second |-> 0]
    /\ highest = 0
    /\ tried = << >> /\ succeeded = {} /\ failed = {}
    /\ final_result = "none" /\ error_reported = FALSE
    /\ wrote_description = FALSE /\ wrote_image = FALSE
    /\ SplitIdle /\ PruneIdle /\ PackIdle

\* if( cfg.auto_height ): the search's locals are set up, or the search is
\* skipped.
Begin ==
    /\ pc = "start"
    /\ IF auto_height
       THEN /\ highest' = AddW(tex_height, 1)
            /\ range' = [first |-> 0, second |-> max_char_height]
            /\ pc' = "search"
       ELSE /\ pc' = "final"
            /\ UNCHANGED << highest, range >>
    /\ UNCHANGED << tex_height, max_char_height, auto_height, feasible, tried,
                    succeeded, failed, final_result, error_reported,
                    wrote_description, wrote_image, splitVars, pruneVars,
                    packVars >>

\* One iteration of while( range.first != range.second ).
SearchStep ==
    /\ pc = "search"
    /\ range.first # range.second
    /\ max_char_height' = range.second
    /\ tried' = Append(tried, range.second)
    /\ LET ok == BuildAtlas(range.second)
           n == IF ok THEN SuccessBranch(range, highest)
                      ELSE FailureBranch(range, highest)
       IN  /\ range' = [first |-> n.first, second |-> n.second]
           /\ highest' = n.highest
           /\ succeeded' = IF ok THEN succeeded \cup {range.second}
                                 ELSE succeeded
           /\ failed' = IF ok THEN failed ELSE failed \cup {range.second}
    /\ UNCHANGED << pc, tex_height, auto_height, feasible, final_result,
                    error_reported, wrote_description, wrote_image, splitVars,
                    pruneVars, packVars >>

\* The loop ends: cfg.max_char_height = range.first.
SearchDone ==
    /\ pc = "search"
    /\ range.first = range.second
    /\ max_char_height' = range.first
    /\ pc' = "final"
    /\ UNCHANGED << tex_height, auto_height, feasible, range, highest, tried,
                    succeeded, failed, final_result, error_reported,
                    wrote_description, wrote_image, splitVars, pruneVars,
                    packVars >>

\* The final build_charset and build_atlas, and the error return.
FinalBuild ==
    /\ pc = "final"
    /\ LET ok == BuildAtlas(max_char_height)
       IN  /\ final_result' = IF ok THEN "ok" ELSE "fail"
           /\ error_reported' = ~ok
           /\ pc' = FinalBuildNext(ok)
    /\ UNCHANGED << tex_height, max_char_height, auto_height, feasible, range,
                    highest, tried, succeeded, failed, wrote_description,
                    wrote_image, splitVars, pruneVars, packVars >>

WriteDescription ==
    /\ pc = "write_description"
    /\ wrote_description' = TRUE
    /\ pc' = "write_image"
    /\ UNCHANGED << tex_height, max_char_height, auto_height, feasible, range,
                    highest, tried, succeeded, failed, final_result,
                    error_reported, wrote_image, splitVars, pruneVars,
                    packVars >>

WriteImage ==
    /\ pc = "write_image"
    /\ wrote_image' = TRUE
    /\ pc' = "returned"
    /\ UNCHANGED << tex_height, max_char_height, auto_height, feasible, range,
                    highest, tried, succeeded, failed, final_result,
                    error_reported, wrote_description, splitVars, pruneVars,
                    packVars >>

Next ==
    \/ Begin
    \/ SearchStep
    \/ SearchDone
    \/ FinalBuild
    \/ WriteDescription
    \/ WriteImage

Spec == InitRun /\ [][Next]_vars

\* run() is sequential code: a step that can be taken is taken.
SpecFair == Spec /\ WF_vars(Next)

----------------------------------------------------------------------------
(* SpecSplit: make_splits(a, b, result, spacing) with contains(a, b) *)

FreeBoxes ==
    { Box(bx, by, bw, bh) : bx \in 0..MaxOrigin, by \in 0..MaxOrigin,
                            bw \in 0..MaxExtent, bh \in 0..MaxExtent }

\* The items that lie within free rectangle p.
ItemsWithin(p) ==
    { q \in { Box(bx, by, bw, bh) : bx \in p.x .. p.x + p.width,
                                    by \in p.y .. p.y + p.height,
                                    bw \in 0..p.width, bh \in 0..p.height } :
        contains(p, q) }

InitSplit ==
    /\ a \in FreeBoxes
    /\ b \in ItemsWithin(a)
    /\ spacing \in 0..MaxSpacing
    /\ result = << >>
    /\ called = FALSE
    /\ SearchIdle /\ PruneIdle /\ PackIdle

MakeSplits ==
    /\ ~called
    /\ result' = make_splits(a, b, spacing)
    /\ called' = TRUE
    /\ UNCHANGED << a, b, spacing, searchVars, pruneVars, packVars >>

NextSplit == MakeSplits

SpecSplit == InitSplit /\ [][NextSplit]_vars

----------------------------------------------------------------------------
(* SpecPrune: the containment prune applied to a Free-Space Set, and again *)

PruneBoxes ==
    { r \in { Box(bx, by, bw, bh) : bx \in 0..PruneGrid, by \in 0..PruneGrid,
                                    bw \in 1..PruneGrid, bh \in 1..PruneGrid } :
        r.x + r.width <= PruneGrid /\ r.y + r.height <= PruneGrid }

InitPrune ==
    /\ free_boxes = {}
    /\ pruned_once = {}
    /\ pruned_twice = {}
    /\ stage = 0
    /\ SearchIdle /\ SplitIdle /\ PackIdle

\* The Free-Space Set gains one rectangle.
PushFree ==
    /\ stage = 0
    /\ Cardinality(free_boxes) < MaxFree
    /\ \E r \in PruneBoxes \ free_boxes : free_boxes' = free_boxes \cup {r}
    /\ UNCHANGED << pruned_once, pruned_twice, stage, searchVars, splitVars,
                    packVars >>

\* The prune step runs on the Free-Space Set, and then again on what it left.
PruneTwice ==
    /\ stage = 0
    /\ pruned_once' = Prune(free_boxes)
    /\ pruned_twice' = Prune(Prune(free_boxes))
    /\ stage' = 2
    /\ UNCHANGED << free_boxes, searchVars, splitVars, packVars >>

NextPrune == PushFree \/ PruneTwice

SpecPrune == InitPrune /\ [][NextPrune]_vars

----------------------------------------------------------------------------
(* SpecPack: a packing run on the items, then the run on the scaled items *)

ItemSizes(cv) ==
    { Box(0, 0, bw, bh) : bw \in 1..cv.width, bh \in 1..cv.height }

InitPack ==
    /\ canvas \in [width : 1..MaxCanvas, height : 1..MaxCanvas]
    /\ pack_spacing \in 0..MaxPackSpacing
    /\ rule \in Rules
    /\ scale \in { [num |-> n, den |-> n + 1] : n \in 1..MaxScaleNum }
    /\ \E n \in 1..MaxItems :
         \E items \in [1..n -> ItemSizes(canvas)] :
            /\ runA = StartRun(items, canvas)
            /\ runB = StartRun(ScaleItems(items, scale), canvas)
    /\ SearchIdle /\ SplitIdle /\ PruneIdle

\* The packer places the next item of the run.
PlaceItem ==
    /\ runA.status = "running"
    /\ runA' = PlaceNext(runA, pack_spacing, rule)
    /\ UNCHANGED << canvas, pack_spacing, rule, scale, runB, searchVars,
                    splitVars, pruneVars >>

\* The packer, run again on the scaled items, places the next of them.
PlaceScaledItem ==
    /\ runA.status # "running"
    /\ runB.status = "running"
    /\ runB' = PlaceNext(runB, pack_spacing, rule)
    /\ UNCHANGED << canvas, pack_spacing, rule, scale, runA, searchVars,
                    splitVars, pruneVars >>

NextPack == PlaceItem \/ PlaceScaledItem

SpecPack == InitPack /\ [][NextPack]_vars

----------------------------------------------------------------------------
(* Properties of run(), under Spec and SpecFair *)

\* Feasibility does not increase with the height, height 0 counted as
\* feasible. (No height above the canvas height is feasible in any state.)
MonoFeasible == \A h \in feasible : \A k \in 1..h : k \in feasible

\* The maximal feasible height, height 0 counted as feasible.
MaxFeasible ==
    CHOOSE h \in feasible \cup {0} : \A k \in feasible : k <= h

SearchOver == pc \notin {"start", "search"}

\* C2: when the search loop has ended, the height stored into
\* cfg.max_char_height is the maximal feasible height.
SearchResultMaximal ==
    (auto_height /\ SearchOver /\ MonoFeasible) =>
        (range.first = MaxFeasible /\ max_char_height = MaxFeasible)

\* C7: at the start of every iteration range.first is 0 or a height the
\* search packed, highest is the canvas height + 1 or a height the search
\* failed to pack, and range.first < highest.
BracketInvariant ==
    (pc = "search" /\ MonoFeasible) =>
        /\ range.first = 0 \/ range.first \in succeeded
        /\ highest = tex_height + 1 \/ highest \in failed
        /\ range.first < highest

\* An iteration starts with a packed height below and a failed height above.
BracketWitness ==
    /\ pc = "search" /\ MonoFeasible
    /\ range.first # range.second
    /\ range.first > 0 /\ range.first \in succeeded
    /\ highest \in failed

NoHeightTriedTwice ==
    \A i, j \in 1..Len(tried) : i # j => tried[i] # tried[j]

\* C8: the search loop eventually ends, and no height is passed to the packer
\* more than once during the search.
SearchTerminates ==
    /\ MonoFeasible => <>SearchOver
    /\ [](MonoFeasible => NoHeightTriedTwice)

\* The search has ended after packing some heights and failing others.
SearchTerminatesWitness ==
    /\ auto_height /\ MonoFeasible /\ pc = "final"
    /\ Len(tried) >= 4
    /\ succeeded # {} /\ failed # {}

\* C9: the outputs are written only after the final build_atlas returned
\* true; when it returned false the error is reported and run() returns with
\* neither output written; and with auto-height that happens only when the
\* search ended with height 0.
OutputsOnlyAfterSuccess ==
    /\ (wrote_description \/ wrote_image) => final_result = "ok"
    /\ final_result = "fail" =>
           /\ error_reported /\ pc = "returned"
           /\ ~wrote_description /\ ~wrote_image
    /\ (auto_height /\ final_result = "fail") => max_char_height = 0

\* The failure path was taken after a search that tried some heights.
OutputsOnlyAfterSuccessWitness ==
    /\ auto_height /\ final_result = "fail" /\ pc = "returned"
    /\ tried # << >>

\* C10: where range.second - range.first is evaluated range.second is at
\* least range.first, and where highest - 1 is evaluated highest is at least 1.
NoWrapAround ==
    (pc = "search" /\ range.first # range.second) =>
        IF BuildAtlas(range.second) THEN highest >= 1
        ELSE range.second >= range.first

\* An iteration, under a predicate that is not monotone, that follows both a
\* packed and a failed height.
NoWrapAroundWitness ==
    /\ pc = "search" /\ range.first # range.second
    /\ ~MonoFeasible
    /\ succeeded # {} /\ failed # {}

----------------------------------------------------------------------------
(* Properties of make_splits, under SpecSplit *)

\* C3 as stated: the areas of the rectangles make_splits leaves in result,
\* summed, are at most area(a) - area(b).
SplitAreaSumBound ==
    (called /\ contains(a, b)) => SumArea(result) <= area(a) - area(b)

\* C3 amended: the area that the rectangles make_splits leaves in result cover
\* together (their union, a cell shared by two of them counted once) is at
\* most area(a) - area(b).
SplitUnionAreaBound ==
    (called /\ contains(a, b)) => UnionArea(result) <= area(a) - area(b)

\* make_splits ran on an item strictly inside a, leaving all four remainders,
\* which overlap each other.
SplitUnionAreaWitness ==
    /\ called /\ contains(a, b) /\ Len(result) = 4
    /\ area(b) > 0
    /\ UnionArea(result) < SumArea(result)

\* C4: every rectangle make_splits produces lies within a, has strictly
\* positive width and height whenever a has, and does not overlap b inflated
\* by the spacing.
SplitsWithinAndClear ==
    (called /\ contains(a, b)) =>
        \A i \in 1..Len(result) :
            /\ contains(a, result[i])
            /\ (a.width > 0 /\ a.height > 0) =>
                   (result[i].width > 0 /\ result[i].height > 0)
            /\ ~overlap(result[i], b, spacing)

\* make_splits ran with a positive spacing and left a remainder on each side.
SplitsWithinAndClearWitness ==
    /\ called /\ contains(a, b) /\ spacing > 0
    /\ area(b) > 0 /\ Len(result) = 4

----------------------------------------------------------------------------
(* Properties of the prune step, under SpecPrune *)

\* C6: pruning a Free-Space Set a second time leaves it as the first prune
\* left it.
PruneIdempotent == (stage = 2) => (pruned_twice = pruned_once)

\* Both prunes ran on a set from which the first prune removed some members
\* and kept others.
PruneIdempotentWitness ==
    /\ stage = 2
    /\ Cardinality(free_boxes) >= 3
    /\ Cardinality(pruned_once) < Cardinality(free_boxes)
    /\ Cardinality(pruned_once) >= 2

----------------------------------------------------------------------------
(* Properties of the packing run, under SpecPack *)

\* C1: when the run reports success, no two distinct placed items overlap
\* (spacing included) and every item lies within the canvas.
PackedItemsDisjointInBounds ==
    (runA.status = "ok") =>
        /\ \A i, j \in DOMAIN runA.items :
              i # j => ~overlap(runA.items[i], runA.items[j], pack_spacing)
        /\ \A i \in DOMAIN runA.items :
              /\ 0 <= runA.items[i].x /\ 0 <= runA.items[i].y
              /\ right(runA.items[i]) <= canvas.width
              /\ top(runA.items[i]) <= canvas.height

\* C5: when the run succeeds on the items, the run on the items scaled down
\* by the common factor succeeds too.
PackingMonotone ==
    (runA.status = "ok" /\ runB.status \in {"ok", "failed"}) =>
        runB.status = "ok"

====
